---- MODULE Spec2Model ----
(***************************************************************************)
(* Model of the Microsoft SQL Server datasource integration                *)
(* (packages/server/src/integrations/microsoftSqlServer.ts).               *)
(*                                                                         *)
(* The state is the set of SqlServerIntegration instances built so far     *)
(* (their pool, client, tables and schemaErrors fields), the connection    *)
(* pools created so far, and the one call of read / create / update /      *)
(* delete / query / buildSchema that is in flight, with its position.      *)
(* The mssql driver is the environment: each of its calls may succeed or   *)
(* throw, and a query resolves to any response it can produce.             *)
(*                                                                         *)
(* A call advances from one driver call to the next; the calls of one run  *)
(* follow one another, on any of the instances.  Every instance is built   *)
(* from the same datasource configuration.  Collaborators that live in     *)
(* base/sql, integrations/utils and definitions/datasource are modelled    *)
(* from their documented contract.                                         *)
(***************************************************************************)
EXTENDS Integers, Sequences, FiniteSets, TLC

\* ------------------------------------------------------------------ bounds
MaxInst == 2          \* instances constructed in one process
MaxCalls == 2         \* calls made on the instances in one run
MaxBindings == 2      \* length of a query's bindings array

\* ------------------------------------------------------------- JS values
\* response.recordset: undefined, or an array of rows
NoRecordset == [defined |-> FALSE, rows |-> <<>>]
Recordset(rows) == [defined |-> TRUE, rows |-> rows]

\* query.bindings: undefined, or an array of values
NotArray == [isArray |-> FALSE, items |-> <<>>]
Bindings(items) == [isArray |-> TRUE, items |-> items]

\* a string value, and null, as the driver hands them back in a row
Str(s) == [typeof |-> "string", v |-> s]
JsNull == [typeof |-> "object", v |-> "null"]

\* the thrown values
NoError == [name |-> "", message |-> ""]
DriverError == [name |-> "RequestError", message |-> "driver failure"]
PoolError == [name |-> "ConnectionError", message |-> "connect failure"]
TypeError == [name |-> "TypeError", message |-> "undefined is not iterable"]
TableListError == [name |-> "string", message |-> "Unable to get list of tables in database"]
UnsafeOperationError == [name |-> "UnsafeOperationError", message |-> "no filters"]

\* `new Error(err)`: a plain Error whose message is String(err)
NewError(err) == [name |-> "Error", message |-> err.name \o ": " \o err.message]

NoResult == [kind |-> "none", value |-> <<>>, error |-> NoError]
Returned(value) == [kind |-> "ok", value |-> value, error |-> NoError]
Thrown(err) == [kind |-> "error", value |-> <<>>, error |-> err]

\* ------------------------------------------------------------ definitions
\* Operation enum of definitions/datasource
Operation == [CREATE |-> "CREATE", READ |-> "READ", UPDATE |-> "UPDATE", DELETE |-> "DELETE"]
NoOperation == "undefined"

MASTER_TABLES == {"spt_fallback_db", "spt_fallback_dev", "spt_fallback_usg",
                  "spt_monitor", "MSreplication_options"}
TABLES_SQL == "SELECT * FROM INFORMATION_SCHEMA.TABLES WHERE TABLE_TYPE='BASE TABLE'"
getDefinitionSQL(tableName) ==
    "select * from INFORMATION_SCHEMA.COLUMNS where TABLE_NAME='" \o tableName \o "'"
getConstraintsSQL(tableName) ==
    "SELECT * FROM INFORMATION_SCHEMA.TABLE_CONSTRAINTS AS TC INNER JOIN INFORMATION_SCHEMA.KEY_COLUMN_USAGE AS KU ON TC.CONSTRAINT_TYPE = 'PRIMARY KEY' AND TC.CONSTRAINT_NAME = KU.CONSTRAINT_NAME AND KU.table_name='"
        \o tableName \o "' ORDER BY KU.TABLE_NAME, KU.ORDINAL_POSITION;"
getAutoColumnsSQL(tableName) ==
    "SELECT COLUMNPROPERTY(...,'IsComputed') AS IS_COMPUTED, COLUMNPROPERTY(...,'IsIdentity') AS IS_IDENTITY, * FROM INFORMATION_SCHEMA.COLUMNS WHERE TABLE_NAME='"
        \o tableName \o "'"

IDENTITY_SUFFIX == "; SELECT SCOPE_IDENTITY() AS id;"

\* getSqlQuery of integrations/utils: a string becomes {sql: string}
getSqlQuery(query) ==
    IF query.isString
    THEN [sql |-> query.sql, bindings |-> NotArray]
    ELSE [sql |-> query.sql, bindings |-> query.bindings]

\* --------------------------------------------------------------- inputs
Configs == {"cfgA"}
BindingValues == <<"a", "b", "c", "d">>
BindingLists == {SubSeq(BindingValues, 1, n) : n \in 0..MaxBindings}

SqlText(op) ==
    CASE op = "read" -> "SELECT * FROM orders WHERE id = @p0"
      [] op = "create" -> "INSERT INTO orders (total) VALUES (@p0)"
      [] op = "update" -> "UPDATE orders SET total = @p0 WHERE id = @p1"
      [] op = "delete" -> "DELETE FROM orders WHERE id = @p0"

\* what a caller may pass to read/create/update/delete: SqlQuery | string
QueryArgs(op) ==
    {[isString |-> TRUE, sql |-> SqlText(op), bindings |-> NotArray]}
    \cup {[isString |-> FALSE, sql |-> SqlText(op), bindings |-> Bindings(b)] : b \in BindingLists}

CrudOps == {"read", "create", "update", "delete"}

\* a query description handed to query(): the operation, the filter values,
\* the field values and the caller's full-table mark
QueryJsons ==
    [operation : {Operation.CREATE, Operation.READ, Operation.UPDATE, Operation.DELETE},
     filters : {<<>>, <<"a">>}, fields : {<<"b">>}, fullTable : BOOLEAN]

\* base/sql: the operation named by the query description
_operation(json) == json.operation

\* base/sql: an UPDATE or DELETE with no filter and no full-table mark is
\* not rendered
Unsafe(json) ==
    /\ json.operation \in {Operation.UPDATE, Operation.DELETE}
    /\ json.filters = <<>>
    /\ ~json.fullTable

\* base/sql: the rendered SQL, its bindings in placeholder order
_query(json) ==
    [sql |-> CASE json.operation = Operation.CREATE -> SqlText("create")
               [] json.operation = Operation.READ -> SqlText("read")
               [] json.operation = Operation.UPDATE -> SqlText("update")
               [] json.operation = Operation.DELETE -> SqlText("delete"),
     bindings |-> Bindings(CASE json.operation = Operation.CREATE -> json.fields
                             [] json.operation = Operation.UPDATE -> json.fields \o json.filters
                             [] OTHER -> json.filters)]

\* the rows the metadata catalogue may answer with
TableRow(name) == [TABLE_NAME |-> name]
TableLists ==
    {<<>>, <<TableRow("orders"), TableRow("spt_monitor"), TableRow("users")>>}
TableListResponses == {NoRecordset} \cup {Recordset(rows) : rows \in TableLists}

DefinitionRow(name, type) == [COLUMN_NAME |-> name, DATA_TYPE |-> type]
DefinitionResponses ==
    {Recordset(<<DefinitionRow(Str("id"), "int"), DefinitionRow(Str("total"), "decimal")>>),
     Recordset(<<DefinitionRow(JsNull, "int"), DefinitionRow(Str("total"), "decimal")>>)}

ConstraintRow(type, column) == [CONSTRAINT_TYPE |-> type, COLUMN_NAME |-> column]
ConstraintResponses ==
    {NoRecordset,
     Recordset(<<ConstraintRow("FOREIGN KEY", "total"), ConstraintRow("PRIMARY KEY", "id")>>)}

AutoRow(computed, identity, column) ==
    [IS_COMPUTED |-> computed, IS_IDENTITY |-> identity, COLUMN_NAME |-> column]
AutoColumnResponses ==
    {Recordset(<<AutoRow(0, 1, "id"), AutoRow(0, 0, "total")>>)}

\* what a caller may pass to buildSchema: no prior tables, or the tables the
\* last sync stored
SchemaArgs(stored) ==
    [datasourceId : {"ds1"}, entities : {<<>>, stored}]

\* integrations/utils: native type name to field type, total
convertSqlType(type) ==
    IF type \in {"int", "decimal", "numeric", "float"} THEN "number" ELSE "string"

\* integrations/utils: the id of an external table
buildExternalTableId(datasourceId, tableName) == <<datasourceId, tableName>>

\* integrations/utils: fresh tables over the prior ones; a prior table that
\* is gone upstream is kept, a fresh one overwrites what it re-derived
finaliseExternalTables(tables, entities) ==
    [tables |-> [n \in DOMAIN tables \cup DOMAIN entities |->
                    IF n \in DOMAIN tables
                    THEN IF n \in DOMAIN entities THEN tables[n] @@ entities[n] ELSE tables[n]
                    ELSE entities[n]],
     errors |-> <<>>]

\* ---------------------------------------------------------------- state
VARIABLES
    instances,   \* the SqlServerIntegration objects, in order of construction
    pools,       \* the ConnectionPool objects created, each with its clientCfg
    call,        \* the call in flight
    calls        \* calls made so far

vars == <<instances, pools, call, calls>>

NoClient == 0
NoPool == 0

\* The call in flight.  pc is its position; connects, connected,
\* connectFailed, requests, sent, driverError, listOutcome, failedFetch and
\* before record what the call has done and met so far.
IdleCall ==
    [pc |-> "idle", inst |-> 0, op |-> "none", arg |-> <<>>,
     connects |-> 0, connected |-> FALSE, connectFailed |-> FALSE,
     query |-> [sql |-> "", bindings |-> NotArray], operation |-> NoOperation,
     requests |-> 0, inputs |-> <<>>, count |-> 0, sent |-> <<>>,
     response |-> NoRecordset, result |-> NoResult, driverError |-> NoError,
     stage |-> "none", tableNames |-> <<>>, rest |-> <<>>, tableName |-> "",
     definition |-> NoRecordset, constraints |-> NoRecordset, columns |-> NoRecordset,
     tables |-> <<>>, listOutcome |-> "none", failedFetch |-> {},
     before |-> [tables |-> <<>>, schemaErrors |-> <<>>]]

Init ==
    /\ instances = <<>>
    /\ pools = <<>>
    /\ call = IdleCall
    /\ calls = 0

\* ----------------------------------------------------------- constructor
\* `this.pool` as the constructor reads it: a property of the instance under
\* construction (the static member is a property of the class, which is not
\* on the instance's prototype chain)
thisPool(this) == this.pool

Construct(config) ==
    /\ Len(instances) < MaxInst
    /\ LET this == [config |-> config, pool |-> NoPool, client |-> NoClient,
                    tables |-> <<>>, schemaErrors |-> <<>>]
       IN IF thisPool(this) = NoPool
          THEN /\ pools' = Append(pools, config)
               /\ instances' = Append(instances, [this EXCEPT !.pool = Len(pools) + 1])
          ELSE /\ pools' = pools
               /\ instances' = Append(instances, this)
    /\ UNCHANGED <<call, calls>>

\* -------------------------------------------------------------- connect
\* Every operation starts with `await this.connect()`: this.pool.connect()
\* is issued at once and the call suspends.
Invoke(i, op, arg) ==
    /\ call.pc = "idle"
    /\ calls < MaxCalls
    /\ i \in 1..Len(instances)
    /\ call' = [IdleCall EXCEPT !.pc = "connect", !.inst = i, !.op = op,
                                !.arg = arg, !.connects = 1,
                                !.before = [tables |-> instances[i].tables,
                                            schemaErrors |-> instances[i].schemaErrors]]
    /\ calls' = calls + 1
    /\ UNCHANGED <<instances, pools>>

InvokeCrud ==
    \E i \in 1..Len(instances), op \in CrudOps : \E arg \in QueryArgs(op) : Invoke(i, op, arg)

InvokeQuery ==
    \E i \in 1..Len(instances), json \in QueryJsons : Invoke(i, "query", json)

InvokeBuildSchema ==
    \E i \in 1..Len(instances) : \E arg \in SchemaArgs(instances[i].tables) : Invoke(i, "buildSchema", arg)

\* a throw that nothing catches: the call ends with it
Fail(c, err) == [c EXCEPT !.pc = "done", !.result = Thrown(err)]

\* an exception out of internalQuery: no caller catches it.  When it ends a
\* metadata fetch of buildSchema the failure is noted against that fetch.
internalQueryThrows(c, err) ==
    [Fail(c, err) EXCEPT
        !.listOutcome = IF c.stage = "tables" THEN "error" ELSE @,
        !.failedFetch = IF c.stage \in {"definition", "constraints", "columns"}
                        THEN @ \cup {c.tableName} ELSE @]

\* internalQuery entered with (this.client, query, operation)
EnterInternalQuery(c, query, operation) ==
    [c EXCEPT !.pc = "request", !.query = query, !.operation = operation,
              !.inputs = <<>>, !.count = 0]

\* runSQL(sql): internalQuery(this.client, getSqlQuery(sql))
runSQL(c, sql) ==
    EnterInternalQuery(c, getSqlQuery([isString |-> TRUE, sql |-> sql, bindings |-> NotArray]),
                       NoOperation)

\* base/sql queryWithReturning(json, queryFn, processFn): renders the
\* description, then calls queryFn(query, operation)
queryWithReturning(c, json, operation) ==
    IF Unsafe(json)
    THEN Fail(c, UnsafeOperationError)
    ELSE EnterInternalQuery(c, _query(json), operation)

\* what follows `await this.connect()`, up to the next driver call
AfterConnect(c) ==
    CASE c.op \in CrudOps -> EnterInternalQuery(c, getSqlQuery(c.arg), NoOperation)
      [] c.op = "query" -> queryWithReturning(c, c.arg, _operation(c.arg))
      [] c.op = "buildSchema" -> runSQL([c EXCEPT !.stage = "tables"], TABLES_SQL)

ConnectResolved ==
    /\ call.pc = "connect"
    /\ instances' = [instances EXCEPT ![call.inst].client = instances[call.inst].pool]
    /\ call' = AfterConnect([call EXCEPT !.connected = TRUE])
    /\ UNCHANGED <<pools, calls>>

\* a connect() whose catch block does not rethrow
ConnectRejectedSwallowed ==
    /\ call.pc = "connect"
    /\ call' = AfterConnect([call EXCEPT !.connectFailed = TRUE])
    /\ UNCHANGED <<instances, pools, calls>>

\* catch (err) { throw new Error(err) }
ConnectRejected ==
    /\ call.pc = "connect"
    /\ call' = [Fail(call, NewError(PoolError)) EXCEPT !.connectFailed = TRUE]
    /\ UNCHANGED <<instances, pools, calls>>

\* -------------------------------------------------------- internalQuery
\* const request = client.request(), outside the try block
RequestCreated ==
    /\ call.pc = "request"
    /\ instances[call.inst].client # NoClient
    /\ call' = [call EXCEPT !.pc = "bind", !.requests = @ + 1]
    /\ UNCHANGED <<instances, pools, calls>>

RequestThrows ==
    /\ call.pc = "request"
    /\ call' = IF instances[call.inst].client = NoClient
               THEN internalQueryThrows(call, TypeError)
               ELSE [internalQueryThrows(call, DriverError) EXCEPT !.driverError = DriverError]
    /\ UNCHANGED <<instances, pools, calls>>

\* `p${++count}`: the counter stepped before it is read
InputNamePreIncrement(count) == "p" \o ToString(count + 1)

\* `p${count++}`
InputName(count) == "p" \o ToString(count)

BindingsLeft(c) == c.query.bindings.isArray /\ c.count < Len(c.query.bindings.items)

InputRegistered ==
    /\ call.pc = "bind"
    /\ BindingsLeft(call)
    /\ call' = [call EXCEPT
                 !.inputs = Append(@, <<InputName(call.count),
                                        call.query.bindings.items[call.count + 1]>>),
                 !.count = @ + 1]
    /\ UNCHANGED <<instances, pools, calls>>

\* catch (err) { throw new Error(err) }
Rethrow(err) == NewError(err)

InputThrows ==
    /\ call.pc = "bind"
    /\ BindingsLeft(call)
    /\ call' = [internalQueryThrows(call, Rethrow(DriverError)) EXCEPT !.driverError = DriverError]
    /\ UNCHANGED <<instances, pools, calls>>

\* the follow-up fetch appended whatever the operation
SqlToSendAlwaysIdentity(query, operation) == query.sql \o IDENTITY_SUFFIX

\* the text handed to request.query
SqlToSend(query, operation) ==
    IF operation = Operation.CREATE THEN query.sql \o IDENTITY_SUFFIX ELSE query.sql

QuerySent ==
    /\ call.pc = "bind"
    /\ ~BindingsLeft(call)
    /\ call' = [call EXCEPT !.pc = "await",
                            !.sent = Append(@, SqlToSend(call.query, call.operation))]
    /\ UNCHANGED <<instances, pools, calls>>

QueryRejected ==
    /\ call.pc = "await"
    /\ call' = [internalQueryThrows(call, Rethrow(DriverError)) EXCEPT !.driverError = DriverError]
    /\ UNCHANGED <<instances, pools, calls>>

\* ---------------------------------------------- read/create/update/delete
CrudResponses == {NoRecordset, Recordset(<<>>), Recordset(<<[id |-> 1]>>)}

\* response.recordset || [{ <marker>: true }]: an empty array is truthy
OrMarker(response, marker) ==
    IF response.defined THEN response.rows ELSE <<(marker :> TRUE)>>

CrudValue(op, response) ==
    CASE op = "read" -> response
      [] op = "create" -> OrMarker(response, "created")
      [] op = "update" -> OrMarker(response, "updated")
      [] op = "delete" -> OrMarker(response, "deleted")

CrudReturn ==
    /\ call.pc = "await"
    /\ call.op \in CrudOps
    /\ \E response \in CrudResponses :
         call' = [call EXCEPT !.pc = "done", !.response = response,
                              !.result = Returned(CrudValue(call.op, response))]
    /\ UNCHANGED <<instances, pools, calls>>

\* ---------------------------------------------------------------- query
\* processFn: result.recordset ? result.recordset : [{ [operation]: true }]
processFn(result, operation) == OrMarker(result, operation)

QueryReturn ==
    /\ call.pc = "await"
    /\ call.op = "query"
    /\ \E response \in CrudResponses :
         call' = [call EXCEPT !.pc = "done", !.response = response,
                              !.result = Returned(processFn(response, _operation(call.arg)))]
    /\ UNCHANGED <<instances, pools, calls>>

\* ---------------------------------------------------------- buildSchema
\* the check of the table list left out
TableListNeverInvalid(recordset) == FALSE

\* tableNames == null || !Array.isArray(tableNames)
TableListInvalid(recordset) == ~recordset.defined

RECURSIVE FilterMaster(_)
\* .map(record => record.TABLE_NAME).filter(name => MASTER_TABLES.indexOf(name) === -1)
FilterMaster(rows) ==
    IF rows = <<>> THEN <<>>
    ELSE IF Head(rows).TABLE_NAME \in MASTER_TABLES
         THEN FilterMaster(Tail(rows))
         ELSE <<Head(rows).TABLE_NAME>> \o FilterMaster(Tail(rows))

RECURSIVE PrimaryKeys(_)
\* constraints.filter(c => c.CONSTRAINT_TYPE === "PRIMARY KEY").map(c => c.COLUMN_NAME)
PrimaryKeys(rows) ==
    IF rows = <<>> THEN <<>>
    ELSE IF Head(rows).CONSTRAINT_TYPE = "PRIMARY KEY"
         THEN <<Head(rows).COLUMN_NAME>> \o PrimaryKeys(Tail(rows))
         ELSE PrimaryKeys(Tail(rows))

RECURSIVE AutoColumns(_)
\* columns.filter(col => col.IS_COMPUTED || col.IS_IDENTITY).map(col => col.COLUMN_NAME)
AutoColumns(rows) ==
    IF rows = <<>> THEN <<>>
    ELSE IF Head(rows).IS_COMPUTED # 0 \/ Head(rows).IS_IDENTITY # 0
         THEN <<Head(rows).COLUMN_NAME>> \o AutoColumns(Tail(rows))
         ELSE AutoColumns(Tail(rows))

RECURSIVE TableSchema(_, _, _)
\* the loop over the definition rows: a row whose column name is no string
\* is skipped, a later row of the same name overwrites an earlier one
TableSchema(definition, autoColumns, schema) ==
    IF definition = <<>> THEN schema
    ELSE LET def == Head(definition)
             name == def.COLUMN_NAME
         IN IF name.typeof # "string"
            THEN TableSchema(Tail(definition), autoColumns, schema)
            ELSE TableSchema(Tail(definition), autoColumns,
                     (name.v :> [autocolumn |-> \E k \in 1..Len(autoColumns) : autoColumns[k] = name.v,
                                 name |-> name.v,
                                 type |-> convertSqlType(def.DATA_TYPE)]) @@ schema)

\* tables[tableName] = {...}
TableRecord(datasourceId, tableName, definition, constraints, columns) ==
    [_id |-> buildExternalTableId(datasourceId, tableName),
     primary |-> PrimaryKeys(constraints),
     name |-> tableName,
     schema |-> TableSchema(definition, AutoColumns(columns), <<>>)]

\* the head of the loop over tableNames: the next table's first fetch, or,
\* past the last table, the merge and the two assignments
ForTables(c, names) ==
    IF names # <<>>
    THEN /\ call' = runSQL([c EXCEPT !.stage = "definition", !.tableName = Head(names),
                                     !.rest = Tail(names)],
                           getDefinitionSQL(Head(names)))
         /\ UNCHANGED instances
    ELSE LET final == finaliseExternalTables(c.tables, c.arg.entities)
         IN /\ instances' = [instances EXCEPT ![c.inst].tables = final.tables,
                                              ![c.inst].schemaErrors = final.errors]
            /\ call' = [c EXCEPT !.pc = "done", !.stage = "final", !.result = Returned(<<>>)]

TableListFetched ==
    /\ call.pc = "await"
    /\ call.op = "buildSchema"
    /\ call.stage = "tables"
    /\ \E response \in TableListResponses :
         LET c == [call EXCEPT !.response = response,
                               !.listOutcome = IF response.defined THEN "list" ELSE "undefined"]
         IN IF TableListInvalid(response)
            THEN /\ call' = Fail(c, TableListError)
                 /\ UNCHANGED instances
            ELSE ForTables([c EXCEPT !.tableNames = FilterMaster(response.rows)],
                           FilterMaster(response.rows))
    /\ UNCHANGED <<pools, calls>>

DefinitionFetched ==
    /\ call.pc = "await"
    /\ call.op = "buildSchema"
    /\ call.stage = "definition"
    /\ \E response \in DefinitionResponses :
         call' = runSQL([call EXCEPT !.response = response, !.definition = response,
                                     !.stage = "constraints"],
                        getConstraintsSQL(call.tableName))
    /\ UNCHANGED <<instances, pools, calls>>

ConstraintsFetched ==
    /\ call.pc = "await"
    /\ call.op = "buildSchema"
    /\ call.stage = "constraints"
    /\ \E response \in ConstraintResponses :
         call' = runSQL([call EXCEPT !.response = response, !.constraints = response,
                                     !.stage = "columns"],
                        getAutoColumnsSQL(call.tableName))
    /\ UNCHANGED <<instances, pools, calls>>

\* the third fetch is in: the three results are filtered and merged into the
\* table's record (an undefined recordset has no filter and is not iterable)
ColumnsFetched ==
    /\ call.pc = "await"
    /\ call.op = "buildSchema"
    /\ call.stage = "columns"
    /\ \E response \in AutoColumnResponses :
         LET c == [call EXCEPT !.response = response, !.columns = response]
         IN IF ~c.constraints.defined \/ ~c.columns.defined \/ ~c.definition.defined
            THEN /\ call' = Fail(c, TypeError)
                 /\ UNCHANGED instances
            ELSE ForTables([c EXCEPT !.tables =
                               (c.tableName :> TableRecord(c.arg.datasourceId, c.tableName,
                                                           c.definition.rows, c.constraints.rows,
                                                           c.columns.rows)) @@ @],
                           c.rest)
    /\ UNCHANGED <<pools, calls>>

\* the caller takes the result; the next call may start
Finish ==
    /\ call.pc = "done"
    /\ call' = IdleCall
    /\ UNCHANGED <<instances, pools, calls>>

Next ==
    \/ \E config \in Configs : Construct(config)
    \/ InvokeCrud
    \/ InvokeQuery
    \/ InvokeBuildSchema
    \/ ConnectResolved
    \/ ConnectRejected
    \/ RequestCreated
    \/ RequestThrows
    \/ InputRegistered
    \/ InputThrows
    \/ QuerySent
    \/ QueryRejected
    \/ CrudReturn
    \/ QueryReturn
    \/ TableListFetched
    \/ DefinitionFetched
    \/ ConstraintsFetched
    \/ ColumnsFetched
    \/ Finish

Spec == Init /\ [][Next]_vars

\* ================================================================ claims
Last(seq) == seq[Len(seq)]
IsDataOp(c) == c.op \in CrudOps \cup {"query"}

\* C1: for constructions that use the same datasource configuration at most
\* one connection pool is ever created, and every instance of that
\* configuration holds that one pool.
C1_OnePoolPerConfiguration ==
    /\ \A cfg \in Configs : Cardinality({k \in 1..Len(pools) : pools[k] = cfg}) <= 1
    /\ \A i, j \in 1..Len(instances) :
         instances[i].config = instances[j].config => instances[i].pool = instances[j].pool

\* C2: a buildSchema call in which the metadata fetches of exactly one table
\* k failed does not abort: it ends normally with every other table
\* introspected and exactly one error entry, for k.
C2_PartialFailureIsolated ==
    (call.op = "buildSchema" /\ call.pc = "done" /\ Cardinality(call.failedFetch) = 1) =>
        /\ call.result.kind = "ok"
        /\ DOMAIN call.tables =
             {call.tableNames[k] : k \in 1..Len(call.tableNames)} \ call.failedFetch
        /\ DOMAIN instances[call.inst].schemaErrors = call.failedFetch

\* C3: a call has sent SQL only after a connect() that it issued itself has
\* completed successfully; a call whose connect() failed has ended in failure
\* and has sent no SQL.
C3_ConnectBeforeSql ==
    /\ (call.sent # <<>> \/ call.requests > 0) => (call.connects >= 1 /\ call.connected)
    /\ call.connectFailed =>
         (call.sent = <<>> /\ call.requests = 0 /\ call.pc = "done" /\ call.result.kind = "error")

C3_Witness ==
    /\ call.op = "buildSchema" /\ call.connected /\ Len(call.sent) >= 2

\* C4: a query() for an UPDATE or DELETE with no filter and no full-table
\* mark issues no connect() and no SQL, and ends with UnsafeOperationError.
C4_UnsafeRefusedBeforeConnection ==
    (call.op = "query" /\ Unsafe(call.arg)) =>
        /\ call.connects = 0
        /\ call.sent = <<>>
        /\ (call.pc = "done" => call.result = Thrown(UnsafeOperationError))

\* C5: a create, update, delete or query that succeeds returns a non-empty
\* result: the driver's rows unchanged when it returned rows, and otherwise
\* the single marker {created: true}, {updated: true} or {deleted: true},
\* the same through query() as through create/update/delete.
SuccessMarker(c) ==
    CASE c.op = "create" \/ (c.op = "query" /\ c.arg.operation = Operation.CREATE) -> "created"
      [] c.op = "update" \/ (c.op = "query" /\ c.arg.operation = Operation.UPDATE) -> "updated"
      [] c.op = "delete" \/ (c.op = "query" /\ c.arg.operation = Operation.DELETE) -> "deleted"

C5_UniformNonEmptyResult ==
    (/\ call.pc = "done"
     /\ call.result.kind = "ok"
     /\ \/ call.op \in {"create", "update", "delete"}
        \/ (call.op = "query" /\ call.arg.operation # Operation.READ)) =>
        /\ call.result.value # <<>>
        /\ IF call.response.defined /\ call.response.rows # <<>>
           THEN call.result.value = call.response.rows
           ELSE call.result.value = <<(SuccessMarker(call) :> TRUE)>>

\* C6 (as claimed): the SQL sent for a CREATE, through create() or through
\* query(), is the INSERT text followed by the identity fetch; any other SQL
\* sent is the query's text alone.
C6_EveryCreateAppendsIdentity ==
    call.pc = "await" =>
        Last(call.sent) =
            IF call.op = "create" \/ (call.op = "query" /\ call.arg.operation = Operation.CREATE)
            THEN call.query.sql \o "; SELECT SCOPE_IDENTITY() AS id;"
            ELSE call.query.sql

\* C6 (amended): the SQL sent for a CREATE description through query() is the
\* INSERT text followed by the identity fetch; the SQL sent by create(), like
\* that of read, update, delete and the metadata queries, is the query's text
\* alone.
C6_QueryCreateAppendsIdentity ==
    call.pc = "await" =>
        Last(call.sent) =
            IF call.op = "query" /\ call.arg.operation = Operation.CREATE
            THEN call.query.sql \o "; SELECT SCOPE_IDENTITY() AS id;"
            ELSE call.query.sql

C6_Witness ==
    /\ call.pc = "await" /\ call.op = "query" /\ call.arg.operation = Operation.CREATE
    /\ call.sent # <<>>

\* C7: a data operation that met a driver failure ends with the one wrapped
\* error kind, carrying the driver's message, never with the driver's own
\* exception.
C7_DriverFailuresWrapped ==
    (IsDataOp(call) /\ call.pc = "done" /\ call.driverError # NoError) =>
        /\ call.result.kind = "error"
        /\ call.result.error.name = "Error"
        /\ call.result.error.message = "RequestError: driver failure"

\* C8: when the table-list fetch of buildSchema failed or gave no list, the
\* call has ended in failure, no per-table fetch was sent, and the
\* instance's tables and schemaErrors are what they were before the call.
C8_TableListFailureAborts ==
    (call.op = "buildSchema" /\ call.listOutcome \in {"error", "undefined"}) =>
        /\ call.pc = "done"
        /\ call.result.kind = "error"
        /\ \A k \in 1..Len(call.sent) : call.sent[k] = TABLES_SQL
        /\ Len(call.sent) <= 1
        /\ instances[call.inst].tables = call.before.tables
        /\ instances[call.inst].schemaErrors = call.before.schemaErrors

C8_Witness ==
    /\ call.op = "buildSchema" /\ call.pc = "done" /\ call.listOutcome = "undefined"
    /\ DOMAIN call.before.tables # {}
    /\ call.arg.entities = <<>>

\* C9: while a request is being prepared its inputs are the first bindings,
\* in order, under the names p0, p1, ..., and its SQL is not yet sent; once
\* the SQL is sent every binding is registered, exactly once, and the text
\* sent is the query's text, whatever the bindings are.
PositionalNames == <<"p0", "p1", "p2", "p3">>

C9_BindingsRegisteredInOrder ==
    call.pc \in {"bind", "await"} =>
        LET items == call.query.bindings.items
        IN /\ \A k \in 1..Len(call.inputs) : call.inputs[k] = <<PositionalNames[k], items[k]>>
           /\ Len(call.inputs) <= Len(items)
           /\ call.pc = "bind" => Len(call.sent) = call.requests - 1
           /\ call.pc = "await" =>
                /\ Len(call.inputs) = Len(items)
                /\ Len(call.sent) = call.requests
                /\ Last(call.sent) \in {call.query.sql,
                                        call.query.sql \o "; SELECT SCOPE_IDENTITY() AS id;"}

C9_Witness ==
    /\ call.pc = "await" /\ Len(call.query.bindings.items) = 2 /\ Len(call.inputs) = 2

\* C10: in every table record buildSchema builds, each name of the
\* primary-key list is a key of the record's schema.
C10_PrimaryKeysAreColumns ==
    \A t \in DOMAIN call.tables :
        \A k \in 1..Len(call.tables[t].primary) :
            call.tables[t].primary[k] \in DOMAIN call.tables[t].schema

====
